---- MODULE Spec2Model ----
(***************************************************************************)
(* Model of robonix/capability/crawler_mapping/api/api.py: the three       *)
(* operations start_mapping, stop_mapping and save_map, called by a small  *)
(* set of concurrent callers, together with the part of the operating      *)
(* system they act on: the log files under /tmp, the save directories and  *)
(* artifact files, and the table of spawned processes.                     *)
(*                                                                         *)
(* Strings are sequences of tokens (each token a TLA+ string), so that     *)
(* slicing, splitting and concatenation are computed, not assumed.         *)
(*                                                                         *)
(* Environment assumptions: map_name is a bare file name (no separator),   *)
(* save_dir has no trailing separator, and a log file that was opened for  *)
(* writing by a call can be read back by that call.                        *)
(***************************************************************************)
EXTENDS Integers, Sequences, FiniteSets, TLC

VARIABLES
    files,    \* the log files under /tmp: path -> [ex, data]
    dirs,     \* the save directories that exist
    arts,     \* the artifact files (<base>.yaml, <base>.pgm) that exist
    procs,    \* the processes spawned by start_mapping, by pid (index)
    pc,       \* each caller's position in the operation it runs
    args,     \* each caller's arguments
    loc,      \* each caller's local variables
    cmd,      \* the external save command run by each caller
    res,      \* each caller's returned result
    node      \* the component loader of manager/node.py: its call in progress

vars == <<files, dirs, arts, procs, pc, args, loc, cmd, res, node>>

-----------------------------------------------------------------------------
(* Bounds of the model *)

MaxWrites == 2      \* output bursts of the spawned processes, all together
ChunkLen == 300     \* characters in one output burst of a spawned process
MaxBursts == 2      \* output bursts of the save commands, all together
BurstLines == 6     \* lines in one output burst of the save command
MaxEntries == 2     \* entries listed under one base of the configuration

\* the callers; each makes one call, and t2 calls after t1 has called, so
\* the two calls are either concurrent or one after the other
Threads == {"t1", "t2"}

(* Program constants *)

ExcerptLen == 500   \* f.read()[-500:]
TailLines == 10     \* f.readlines()[-10:]

NONE == "<None>"
NL == "\n"

-----------------------------------------------------------------------------
(* Text: a string is a sequence of runs [c, n], n > 0 copies of the token  *)
(* c, with no two neighbouring runs of the same token, so that equal       *)
(* strings are equal values.                                               *)

Run(c, n) == [c |-> c, n |-> n]

\* a literal of one token
Lit(c) == <<Run(c, 1)>>

RECURSIVE TLen(_)
TLen(x) == IF x = <<>> THEN 0 ELSE Head(x).n + TLen(Tail(x))

\* x + y
TCat(x, y) ==
    IF x = <<>> THEN y
    ELSE IF y = <<>> THEN x
    ELSE IF x[Len(x)].c = Head(y).c
         THEN SubSeq(x, 1, Len(x) - 1) \o <<Run(Head(y).c, x[Len(x)].n + Head(y).n)>> \o Tail(y)
    ELSE x \o y

\* x[k:]
RECURSIVE Drop(_, _)
Drop(x, k) ==
    IF k <= 0 \/ x = <<>> THEN x
    ELSE IF Head(x).n <= k THEN Drop(Tail(x), k - Head(x).n)
    ELSE <<Run(Head(x).c, Head(x).n - k)>> \o Tail(x)

\* x[:k]
RECURSIVE Take(_, _)
Take(x, k) ==
    IF k <= 0 \/ x = <<>> THEN <<>>
    ELSE IF Head(x).n <= k THEN <<Head(x)>> \o Take(Tail(x), k - Head(x).n)
    ELSE <<Run(Head(x).c, k)>>

\* mutant: x[:n]
FirstN(x, n) == Take(x, n)

\* x[-n:] of Python, for n > 0
LastN(x, n) == IF TLen(x) <= n THEN x ELSE Drop(x, TLen(x) - n)

\* the i-th token of x, 1 <= i <= TLen(x)
RECURSIVE CharAt(_, _)
CharAt(x, i) == IF i <= Head(x).n THEN Head(x).c ELSE CharAt(Tail(x), i - Head(x).n)

\* a text as the plain sequence of its tokens, and back
RECURSIVE Expand(_)
Expand(x) ==
    IF x = <<>> THEN <<>>
    ELSE [i \in 1..Head(x).n |-> Head(x).c] \o Expand(Tail(x))

RECURSIVE FromSeq(_)
FromSeq(s) == IF s = <<>> THEN <<>> ELSE TCat(Lit(Head(s)), FromSeq(Tail(s)))

\* a write of chunk at offset off of a file opened without O_APPEND: a hole
\* left by a truncation made through another descriptor reads back as NUL
WriteAt(data, off, chunk) ==
    LET padded == IF TLen(data) < off
                  THEN TCat(data, <<Run("NUL", off - TLen(data))>>)
                  ELSE data
    IN  TCat(TCat(Take(padded, off), chunk), Drop(padded, off + TLen(chunk)))

-----------------------------------------------------------------------------
(* Pure helpers on plain token sequences and lists *)

\* mutant: l[:n]
FirstItems(l, n) == IF Len(l) <= n THEN l ELSE SubSeq(l, 1, n)

\* l[-n:] of Python on a list, for n > 0
LastItems(l, n) == IF Len(l) <= n THEN l ELSE SubSeq(l, Len(l) - n + 1, Len(l))

\* str.split(sep) of Python on a token sequence: the list of the pieces
RECURSIVE Split(_, _)
Split(s, sep) ==
    IF \A i \in 1..Len(s) : s[i] # sep
    THEN <<s>>
    ELSE LET k == CHOOSE i \in 1..Len(s) :
                    s[i] = sep /\ \A j \in 1..(i - 1) : s[j] # sep
         IN  <<SubSeq(s, 1, k - 1)>> \o Split(SubSeq(s, k + 1, Len(s)), sep)

\* "".join(list) of Python
RECURSIVE Concat(_)
Concat(l) == IF l = <<>> THEN <<>> ELSE Head(l) \o Concat(Tail(l))

\* file.readlines() of Python: the lines, each keeping its "\n"; a last
\* line without "\n" is a line too
RECURSIVE Readlines(_)
Readlines(s) ==
    IF s = <<>> THEN <<>>
    ELSE IF \A i \in 1..Len(s) : s[i] # NL THEN <<s>>
    ELSE LET k == CHOOSE i \in 1..Len(s) :
                    s[i] = NL /\ \A j \in 1..(i - 1) : s[j] # NL
         IN  <<SubSeq(s, 1, k)>> \o Readlines(SubSeq(s, k + 1, Len(s)))

\* whether pat occurs in s as a contiguous piece (pkill -f matching)
Contains(s, pat) ==
    \E i \in 0..(Len(s) - Len(pat)) :
        \A j \in 1..Len(pat) : s[i + j] = pat[j]

-----------------------------------------------------------------------------
(* start_mapping: tables and inputs *)

MAPPING_LAUNCH_MAP ==
    [gmapping     |-> <<"slam_gmapping", "/", "slam_gmapping", ".launch.py">>,
     cartographer |-> <<"wheeltec_", "cartographer", "/", "cartographer", ".launch.py">>,
     slam_toolbox |-> <<"wheeltec_", "slam_toolbox", "/", "online_sync.launch.py">>]

KnownMethods == DOMAIN MAPPING_LAUNCH_MAP

Methods == KnownMethods \cup {"hector"}

ConfigFiles == {NONE, "nav.yaml"}

\* `if config_file:` of Python: None and "" are false
Truthy(c) == c # NONE /\ c # ""

\* the argv of the launch, lines 30-36
LaunchCmd(m, c) ==
    <<<<"ros2">>, <<"launch">>>> \o Split(MAPPING_LAUNCH_MAP[m], "/")
      \o (IF Truthy(c)
          THEN <<<<"--ros-args">>, <<"-p">>, <<"config_file:=", c>>>>
          ELSE <<>>)

\* the command line of a process, as pkill -f sees it: argv joined by spaces
RECURSIVE CmdLine(_)
CmdLine(argv) ==
    IF argv = <<>> THEN <<>>
    ELSE IF Len(argv) = 1 THEN Head(argv)
    ELSE Head(argv) \o <<" ">> \o CmdLine(Tail(argv))

\* mutant: one log for every method
StartLogPathFixed(m) == <<"/tmp/", "gmapping", "_mapping.log">>

\* line 38
StartLogPath(m) == <<"/tmp/", m, "_mapping.log">>


Known(m) == m \in DOMAIN MAPPING_LAUNCH_MAP

-----------------------------------------------------------------------------
(* stop_mapping: the fixed list of name patterns, line 73 *)

StopPatterns ==
    << <<"slam_gmapping">>, <<"cartographer", "_node">>, <<"slam_toolbox", "_node">> >>

\* the command line of the node process a launch of method m forks; the
\* list of line 73 names one node per backend
NodeCmd(m) ==
    CASE m = "gmapping"     -> StopPatterns[1]
      [] m = "cartographer" -> StopPatterns[2]
      [] m = "slam_toolbox" -> StopPatterns[3]

-----------------------------------------------------------------------------
(* save_map: inputs and paths *)

MapNames == {"default_map", "m2"}

SaveDirs == { <<".", "/", "maps">>, <<"/", "data">> }

\* mutant: a + b
JoinNoSeparator(a, b) == a \o b

\* os.path.join(a, b)
Join(a, b) ==
    IF b # <<>> /\ Head(b) = "/" THEN b
    ELSE IF a = <<>> \/ a[Len(a)] = "/" THEN a \o b
    ELSE a \o <<"/">> \o b

MapPath(d, n) == Join(d, <<n>>)

\* mutant: one log for every map name
SaveLogPathFixed(n) == <<"/tmp/save_map_", "default_map", ".log">>

\* line 101
SaveLogPath(n) == <<"/tmp/save_map_", n, ".log">>

YamlPath(mp) == mp \o <<".yaml">>

PgmPath(mp) == mp \o <<".pgm">>

\* the files under /tmp the model follows
LogPaths ==
    {<<"/tmp/", m, "_mapping.log">> : m \in Methods}
      \cup {<<"/tmp/save_map_", n, ".log">> : n \in MapNames}

-----------------------------------------------------------------------------
(* Results and exceptions *)

\* an exception object: its class and the text of its arguments
Exc(cls, what) == [cls |-> cls, text |-> Lit(what)]

\* str(e)
Str(e) == e.text

OpenErrors == {Exc("PermissionError", "[Errno 13] Permission denied: log_file")}

SpawnErrors == {Exc("FileNotFoundError", "[Errno 2] No such file or directory: 'ros2'")}

TreeErrors == {Exc("NoSuchProcess", "process no longer exists")}

KillErrors == {Exc("FileNotFoundError", "[Errno 2] No such file or directory: 'pkill'")}

MkdirErrors == {Exc("PermissionError", "[Errno 13] Permission denied: save_dir")}

FileExistsError == Exc("FileExistsError", "[Errno 17] File exists: save_dir")

\* the classes derived from Exception among those raised
ExceptionClasses ==
    {"PermissionError", "FileNotFoundError", "FileExistsError", "NoSuchProcess",
     "CalledProcessError"}

NoResult == [pending |-> TRUE]

\* mutant: the message does not interpolate the method
UnknownMethodNoName(m) ==
    [success |-> FALSE, message |-> Lit("Unkonwn mapping method: {mapping_method}")]

\* lines 25-28
UnknownMethod(m) ==
    [success |-> FALSE, message |-> TCat(Lit("Unkonwn mapping method: "), Lit(m))]

\* lines 47-49
LaunchFailed(data) ==
    [success |-> FALSE, message |-> TCat(Lit("Launch failed:"), LastN(data, ExcerptLen))]

\* line 55
NoChildren ==
    [success |-> FALSE,
     message |-> Lit("No child processes found - launch may have failed")]

\* mutant: config_file is not echoed back
StartedNoEcho(m, c) ==
    [success |-> TRUE, message |-> TCat(Lit("Started mapping using "), Lit(m)),
     launch_file |-> MAPPING_LAUNCH_MAP[m], config_file |-> NONE]

\* lines 57-62
Started(m, c) ==
    [success |-> TRUE, message |-> TCat(Lit("Started mapping using "), Lit(m)),
     launch_file |-> MAPPING_LAUNCH_MAP[m], config_file |-> c]

\* lines 64-65
StartUnexpected(e) == [success |-> FALSE, message |-> Str(e)]

\* line 75
Stopped == [success |-> TRUE, message |-> Lit("Stopped all mapping nodes")]

\* lines 76-77
StopUnexpected(e) == [success |-> FALSE, message |-> Str(e)]

\* lines 112-119
SaveFailed(data, lf) ==
    [success |-> FALSE, path |-> <<>>,
     message |-> TCat(TCat(Lit("Map saver command failed:"), Lit(NL)),
                      FromSeq(Concat(LastItems(Readlines(Expand(data)), TailLines)))),
     log_file |-> lf]

\* lines 129-134
MissingArtifacts(lf) ==
    [success |-> FALSE, path |-> <<>>,
     message |-> Lit("Map save failed: expected output files not found"),
     log_file |-> lf]

\* lines 136-141
Saved(yp, lf) ==
    [success |-> TRUE, path |-> yp,
     message |-> TCat(Lit("Map saved successfully: "), FromSeq(yp)),
     log_file |-> lf]

\* lines 143-149
SaveUnexpected(e) ==
    [success |-> FALSE, path |-> <<>>, message |-> Str(e), log_file |-> <<>>]

-----------------------------------------------------------------------------
(* State *)

NoFile == [ex |-> FALSE, data |-> <<>>]

\* open(path, "w"): the file is created, or truncated to length zero
OpenW(fs, path) == [fs EXCEPT ![path] = [ex |-> TRUE, data |-> <<>>]]

NoArgs ==
    [op |-> "none", mapping_method |-> NONE, config_file |-> NONE,
     map_name |-> NONE, save_dir |-> <<>>]

\* no exception caught
NoExc == [cls |-> "none", text |-> <<>>]

NoLoc ==
    [proc |-> 0, polls |-> 0, poll |-> "unset", children |-> -1, read |-> <<>>,
     i |-> 0, signalled |-> <<>>, status |-> <<>>, rc |-> -1, yaml |-> "unset", pgm |-> "unset",
     exc |-> NoExc]

NoCmd == [st |-> "none", rc |-> -1, off |-> 0, bursts |-> 0]

\* the component loader of manager/node.py before a call: None and the
\* locals of a call
PyNone == [kind |-> "none"]
NoNodeCall ==
    [pc |-> "idle", op |-> NONE, config |-> PyNone,
     kinds |-> [b \in {} |-> "dir"], i |-> 0, j |-> 0,
     base |-> NONE, entry |-> PyNone, sub |-> [kind |-> "missing"],
     found |-> NONE, acc |-> <<>>, out |-> PyNone]

Init ==
    /\ files = [p \in LogPaths |-> NoFile]
    /\ dirs = {}
    /\ arts = {}
    /\ procs = <<>>
    /\ pc = [t \in Threads |-> "idle"]
    /\ args = [t \in Threads |-> NoArgs]
    /\ loc = [t \in Threads |-> NoLoc]
    /\ cmd = [t \in Threads |-> NoCmd]
    /\ res = [t \in Threads |-> NoResult]
    /\ node = NoNodeCall

\* start_mapping and stop_mapping act on the start logs and the process
\* table, save_map on the save logs, the save directories and the artifact
\* files: the two share no state, so the two calls of a behaviour are taken
\* from one of the two groups
Group(op) == IF op = "save_map" THEN "persist" ELSE "lifecycle"

\* a caller that has not called yet may call; t2 calls after t1
Free(t, op) ==
    /\ pc[t] = "idle"
    /\ t = "t2" => pc["t1"] # "idle" /\ Group(args["t1"].op) = Group(op)

Enter(t, a, first) ==
    /\ args' = [args EXCEPT ![t] = a]
    /\ pc' = [pc EXCEPT ![t] = first]
    /\ loc' = [loc EXCEPT ![t] = NoLoc]
    /\ cmd' = [cmd EXCEPT ![t] = NoCmd]
    /\ res' = [res EXCEPT ![t] = NoResult]
    /\ UNCHANGED <<files, dirs, arts, procs, node>>

Return(t, r) ==
    /\ res' = [res EXCEPT ![t] = r]
    /\ pc' = [pc EXCEPT ![t] = "done"]

\* mutant: `except OSError as e`
CatchesOSError(e) == e.cls \in {"PermissionError", "FileNotFoundError"}

\* `except Exception as e`: the classes the handler catches
Catches(e) == e.cls \in ExceptionClasses

\* an exception e raised inside the try block: the handler returns r, and
\* an exception it does not catch leaves the operation
Raise(t, e, r) ==
    /\ loc' = [loc EXCEPT ![t].exc = e]
    /\ IF Catches(e)
       THEN Return(t, r)
       ELSE /\ pc' = [pc EXCEPT ![t] = "raised"]
            /\ UNCHANGED res

-----------------------------------------------------------------------------
(* The callers: entering an operation with its arguments *)

call_start_mapping(t) ==
    /\ Free(t, "start_mapping")
    /\ \E m \in Methods, c \in ConfigFiles :
          Enter(t, [NoArgs EXCEPT !.op = "start_mapping",
                                  !.mapping_method = m, !.config_file = c],
                "start_launch")

call_stop_mapping(t) ==
    /\ Free(t, "stop_mapping")
    /\ Enter(t, [NoArgs EXCEPT !.op = "stop_mapping"], "stop_kill")

call_save_map(t) ==
    /\ Free(t, "save_map")
    /\ \E n \in MapNames, d \in SaveDirs :
          Enter(t, [NoArgs EXCEPT !.op = "save_map", !.map_name = n, !.save_dir = d],
                "save_begin")

-----------------------------------------------------------------------------
(* start_mapping *)

\* the process Popen creates: its descriptor on the log starts at offset 0
NewProc(m, c) ==
    [method |-> m, argv |-> LaunchCmd(m, c), alive |-> TRUE, kids |-> 0,
     log |-> StartLogPath(m), off |-> 0, writes |-> 0]

\* mutant: the log is opened only once the process has been spawned
LogUntouchedAtSpawn(fs, path) == fs

\* lines 40-41: Popen runs inside `with open(log_file, "w")`, the log is
\* already created or truncated when Popen raises
LogOpenedAtSpawn(fs, path) == OpenW(fs, path)

\* lines 23-41: the method check, the open of the log and the spawn
start_mapping_launch(t) ==
    /\ pc[t] = "start_launch"
    /\ LET m == args[t].mapping_method
           c == args[t].config_file
       IN  IF ~Known(m)
           THEN /\ Return(t, UnknownMethod(m))
                /\ UNCHANGED <<files, procs, loc>>
           ELSE \/ \E e \in OpenErrors :          \* open(log_file, "w") raises
                      /\ Raise(t, e, StartUnexpected(e))
                      /\ UNCHANGED <<files, procs>>
                \/ \E e \in SpawnErrors :         \* Popen raises
                      /\ files' = LogOpenedAtSpawn(files, StartLogPath(m))
                      /\ Raise(t, e, StartUnexpected(e))
                      /\ UNCHANGED procs
                \/ /\ files' = OpenW(files, StartLogPath(m))
                   /\ procs' = Append(procs, NewProc(m, c))
                   /\ loc' = [loc EXCEPT ![t].proc = Len(procs) + 1]
                   /\ pc' = [pc EXCEPT ![t] = "start_poll"]
                   /\ UNCHANGED res
    /\ UNCHANGED <<dirs, arts, args, cmd, node>>

\* mutant: `while proc.poll() is None`, the call polls until the process exits
AfterPollRunningAgain == "start_poll"

\* lines 46-52: a process found running is not polled again, its tree is
\* inspected next
AfterPollRunning == "start_children"

\* lines 43-49: after the sleep, proc.poll(); an exited process ends the call
start_mapping_poll(t) ==
    /\ pc[t] = "start_poll"
    /\ LET p == procs[loc[t].proc]
       IN  IF ~p.alive
           THEN /\ loc' = [loc EXCEPT ![t].poll = "exited",
                                      ![t].polls = @ + 1,
                                      ![t].read = files[StartLogPath(args[t].mapping_method)].data]
                /\ Return(t, LaunchFailed(files[StartLogPath(args[t].mapping_method)].data))
           ELSE /\ loc' = [loc EXCEPT ![t].poll = "running", ![t].polls = @ + 1]
                /\ pc' = [pc EXCEPT ![t] = AfterPollRunning]
                /\ UNCHANGED res
    /\ UNCHANGED <<files, dirs, arts, procs, args, cmd, node>>

\* mutant: `if children`
SomeChildren(n) == n # 0

\* line 54: `if not children`
NotChildren(n) == n = 0

\* mutant: proc.terminate() before the failure is returned
TerminatedOnFailure(ps, pid) == [ps EXCEPT ![pid].alive = FALSE, ![pid].kids = 0]

\* lines 54-55: the failure is returned and proc is not signalled
LeftOnFailure(ps, pid) == ps

\* lines 51-62: the process tree of the spawned process
start_mapping_children(t) ==
    /\ pc[t] = "start_children"
    /\ \/ \E e \in TreeErrors :                   \* psutil raises
             /\ Raise(t, e, StartUnexpected(e))
             /\ UNCHANGED procs
       \/ LET n == procs[loc[t].proc].kids
          IN  /\ loc' = [loc EXCEPT ![t].children = n]
              /\ IF NotChildren(n)
                 THEN /\ Return(t, NoChildren)
                      /\ procs' = LeftOnFailure(procs, loc[t].proc)
                 ELSE /\ Return(t, Started(args[t].mapping_method, args[t].config_file))
                      /\ UNCHANGED procs
    /\ UNCHANGED <<files, dirs, arts, args, cmd, node>>

-----------------------------------------------------------------------------
(* The spawned processes, running on their own *)

RECURSIVE Written(_)
Written(ps) == IF ps = <<>> THEN 0 ELSE Head(ps).writes + Written(Tail(ps))

OutChar(pid, w) == "p" \o ToString(pid) \o "." \o ToString(w)

\* the process (or one of its children, which share its descriptor) writes
\* a burst of output to its log
ProcWrite(pid) ==
    /\ pid \in 1..Len(procs)
    /\ procs[pid].alive
    /\ Written(procs) < MaxWrites
    /\ LET p == procs[pid]
           chunk == <<Run(OutChar(pid, p.writes + 1), ChunkLen)>>
       IN  /\ files' = [files EXCEPT ![p.log].data = WriteAt(@, p.off, chunk)]
           /\ procs' = [procs EXCEPT ![pid].off = @ + ChunkLen,
                                     ![pid].writes = @ + 1]
    /\ UNCHANGED <<dirs, arts, pc, args, loc, cmd, res, node>>

\* the launch forks its node
ProcFork(pid) ==
    /\ pid \in 1..Len(procs)
    /\ procs[pid].alive
    /\ procs[pid].kids = 0
    /\ procs' = [procs EXCEPT ![pid].kids = 1]
    /\ UNCHANGED <<files, dirs, arts, pc, args, loc, cmd, res, node>>

\* the process exits; what it had forked is no longer its descendant
ProcExit(pid) ==
    /\ pid \in 1..Len(procs)
    /\ procs[pid].alive
    /\ procs' = [procs EXCEPT ![pid].alive = FALSE, ![pid].kids = 0]
    /\ UNCHANGED <<files, dirs, arts, pc, args, loc, cmd, res, node>>

-----------------------------------------------------------------------------
(* stop_mapping *)

\* pkill -f pat: the processes whose command line contains pat are
\* signalled; `die` is whether the signalled processes terminate
Pkill(ps, pat, die) ==
    [pid \in 1..Len(ps) |->
        LET p == ps[pid]
        IN  IF ~die THEN p
            ELSE IF p.alive /\ Contains(CmdLine(p.argv), pat)
                 THEN [p EXCEPT !.alive = FALSE, !.kids = 0]
            ELSE IF p.kids > 0 /\ Contains(NodeCmd(p.method), pat)
                 THEN [p EXCEPT !.kids = 0]
            ELSE p]

\* the exit status of pkill: 0 when a process matched, 1 when none did
PkillStatus(ps, pat) ==
    IF \E pid \in 1..Len(ps) :
          \/ ps[pid].alive /\ Contains(CmdLine(ps[pid].argv), pat)
          \/ ps[pid].kids > 0 /\ Contains(NodeCmd(ps[pid].method), pat)
    THEN 0 ELSE 1

\* mutant: check=True
RunRaisesChecked(status) == status # 0

\* subprocess.run(..., check=False): the exit status never raises
RunRaises(status) == FALSE

CalledProcessError(status) ==
    Exc("CalledProcessError", "Command returned non-zero exit status " \o ToString(status))

\* mutant: the loop breaks at the first pattern that matched a process
LoopEndsOnMatch(i, status) == i = Len(StopPatterns) \/ status = 0

\* lines 73-75: the for loop ends after the last pattern and not before
LoopEnds(i, status) == i = Len(StopPatterns)

\* lines 72-77: one turn of the loop; the last turn returns
stop_mapping_kill(t) ==
    /\ pc[t] = "stop_kill"
    /\ LET i == loc[t].i + 1
           status == PkillStatus(procs, StopPatterns[i])
       IN  \/ \E e \in KillErrors :               \* pkill cannot be run
                /\ Raise(t, e, StopUnexpected(e))
                /\ UNCHANGED procs
           \/ \E die \in (IF status = 0 THEN BOOLEAN ELSE {FALSE}) :
                /\ procs' = Pkill(procs, StopPatterns[i], die)
                /\ IF RunRaises(status)
                   THEN Raise(t, CalledProcessError(status),
                              StopUnexpected(CalledProcessError(status)))
                   ELSE /\ loc' = [loc EXCEPT ![t].i = i,
                                   ![t].signalled = Append(@, StopPatterns[i]),
                                   ![t].status = Append(@, status)]
                        /\ IF LoopEnds(i, status)
                           THEN Return(t, Stopped)
                           ELSE UNCHANGED <<pc, res>>
    /\ UNCHANGED <<files, dirs, arts, args, cmd, node>>

-----------------------------------------------------------------------------
(* save_map *)

\* mutant: exist_ok=False
DirExistsRaisesStrict(d, ds) == d \in ds

\* os.makedirs(save_dir, exist_ok=True): an existing directory never raises
DirExistsRaises(d, ds) == FALSE

\* lines 95-108: makedirs, the open of the log and the start of the command
save_map_begin(t) ==
    /\ pc[t] = "save_begin"
    /\ LET lf == SaveLogPath(args[t].map_name)
       IN  IF DirExistsRaises(args[t].save_dir, dirs)
           THEN /\ Raise(t, FileExistsError, SaveUnexpected(FileExistsError))
                /\ UNCHANGED <<files, dirs, cmd>>
           ELSE
           \/ \E e \in MkdirErrors :              \* os.makedirs raises
                /\ Raise(t, e, SaveUnexpected(e))
                /\ UNCHANGED <<files, dirs, cmd>>
           \/ \E e \in OpenErrors :               \* open(log_file, "w") raises
                /\ dirs' = dirs \cup {args[t].save_dir}
                /\ Raise(t, e, SaveUnexpected(e))
                /\ UNCHANGED <<files, cmd>>
           \/ \E e \in SpawnErrors :              \* subprocess.run raises
                /\ dirs' = dirs \cup {args[t].save_dir}
                /\ files' = OpenW(files, lf)
                /\ Raise(t, e, SaveUnexpected(e))
                /\ UNCHANGED cmd
           \/ /\ dirs' = dirs \cup {args[t].save_dir}
              /\ files' = OpenW(files, lf)
              /\ cmd' = [cmd EXCEPT ![t].st = "running"]
              /\ pc' = [pc EXCEPT ![t] = "save_run"]
              /\ UNCHANGED <<res, loc>>
    /\ UNCHANGED <<arts, procs, args, node>>

RECURSIVE Bursts(_)
Bursts(ts) ==
    IF ts = {} THEN 0
    ELSE LET t == CHOOSE u \in ts : TRUE IN cmd[t].bursts + Bursts(ts \ {t})

OutLine(t, k) == TCat(Lit(t \o ":" \o ToString(k)), Lit(NL))

\* the lines of output burst b of caller t's save command
RECURSIVE BurstFrom(_, _, _)
BurstFrom(t, k, n) ==
    IF n = 0 THEN <<>> ELSE TCat(OutLine(t, k), BurstFrom(t, k + 1, n - 1))

\* the save command writes a burst of lines to its log
SaveCmdWrite(t) ==
    /\ pc[t] = "save_run"
    /\ cmd[t].st = "running"
    /\ Bursts(Threads) < MaxBursts
    /\ LET chunk == BurstFrom(t, cmd[t].bursts * BurstLines + 1, BurstLines)
       IN  /\ files' = [files EXCEPT ![SaveLogPath(args[t].map_name)].data =
                                          WriteAt(@, cmd[t].off, chunk)]
           /\ cmd' = [cmd EXCEPT ![t].off = @ + TLen(chunk), ![t].bursts = @ + 1]
    /\ UNCHANGED <<dirs, arts, procs, pc, args, loc, res, node>>

\* the save command exits: with status 0, or with status 1 after a last,
\* unterminated line; it has written any of the two artifact files
SaveCmdExit(t) ==
    /\ pc[t] = "save_run"
    /\ cmd[t].st = "running"
    /\ LET mp == MapPath(args[t].save_dir, args[t].map_name)
           lf == SaveLogPath(args[t].map_name)
       IN  \E rc \in {0, 1}, made \in SUBSET {YamlPath(mp), PgmPath(mp)} :
              /\ rc # 0 => Cardinality(made) # 1
              /\ arts' = arts \cup made
              /\ cmd' = [cmd EXCEPT ![t].st = "exited", ![t].rc = rc]
              /\ files' = IF rc = 0 THEN files
                          ELSE [files EXCEPT ![lf].data = WriteAt(@, cmd[t].off, Lit("error"))]
    /\ UNCHANGED <<dirs, procs, pc, args, loc, res, node>>

\* mutant: subprocess.run(..., timeout=...) comes back from a running command
RunReturnsOnTimeout(c) == c.st \in {"running", "exited"}

\* lines 107-108: subprocess.run waits for the command to terminate
RunReturns(c) == c.st = "exited"

\* lines 108-119: subprocess.run returns; a non-zero status ends the call
save_map_returncode(t) ==
    /\ pc[t] = "save_run"
    /\ RunReturns(cmd[t])
    /\ LET lf == SaveLogPath(args[t].map_name)
       IN  IF cmd[t].rc # 0
           THEN /\ loc' = [loc EXCEPT ![t].rc = cmd[t].rc, ![t].read = files[lf].data]
                /\ Return(t, SaveFailed(files[lf].data, lf))
           ELSE /\ loc' = [loc EXCEPT ![t].rc = cmd[t].rc]
                /\ pc' = [pc EXCEPT ![t] = "save_exists"]
                /\ UNCHANGED res
    /\ UNCHANGED <<files, dirs, arts, procs, args, cmd, node>>

\* mutant: `and` for `or`
ArtifactsMissingBoth(y, g) == ~y /\ ~g

\* line 128: `not exists(yaml_path) or not exists(pgm_path)`
ArtifactsMissing(y, g) == ~y \/ ~g

\* lines 121-141: after the sleep, the two artifact files are looked for
save_map_exists(t) ==
    /\ pc[t] = "save_exists"
    /\ LET mp == MapPath(args[t].save_dir, args[t].map_name)
           lf == SaveLogPath(args[t].map_name)
           y  == YamlPath(mp) \in arts
           g  == PgmPath(mp) \in arts
       IN  /\ loc' = [loc EXCEPT ![t].yaml = IF y THEN "yes" ELSE "no",
                                 ![t].pgm = IF ~y THEN "unset"
                                            ELSE IF g THEN "yes" ELSE "no"]
           /\ IF ArtifactsMissing(y, g)
              THEN Return(t, MissingArtifacts(lf))
              ELSE Return(t, Saved(YamlPath(mp), lf))
    /\ UNCHANGED <<files, dirs, arts, procs, args, cmd, node>>

-----------------------------------------------------------------------------

Next ==
    \/ \E t \in Threads : call_start_mapping(t)
    \/ \E t \in Threads : call_stop_mapping(t)
    \/ \E t \in Threads : call_save_map(t)
    \/ \E t \in Threads : start_mapping_launch(t)
    \/ \E t \in Threads : start_mapping_poll(t)
    \/ \E t \in Threads : start_mapping_children(t)
    \/ \E t \in Threads : stop_mapping_kill(t)
    \/ \E t \in Threads : save_map_begin(t)
    \/ \E t \in Threads : save_map_returncode(t)
    \/ \E t \in Threads : save_map_exists(t)
    \/ \E t \in Threads : SaveCmdWrite(t)
    \/ \E t \in Threads : SaveCmdExit(t)
    \/ \E pid \in 1..Cardinality(Threads) : ProcWrite(pid)
    \/ \E pid \in 1..Cardinality(Threads) : ProcFork(pid)
    \/ \E pid \in 1..Cardinality(Threads) : ProcExit(pid)

Spec == Init /\ [][Next]_vars

\* the steps a caller's own thread takes inside start_mapping
StartStep(t) ==
    \/ start_mapping_launch(t)
    \/ start_mapping_poll(t)
    \/ start_mapping_children(t)

\* A thread inside start_mapping keeps running: time.sleep ends and the next
\* statement executes.  Nothing obliges the spawned process or the save
\* command to write or to exit, nor a caller to call.
FairSpec == Spec /\ \A t \in Threads : WF_vars(StartStep(t))

-----------------------------------------------------------------------------
(* manager/node.py: the component loader *)

\* Values loaded from YAML carry their Python type where the code tests it.
PyStr(s) == [kind |-> "str", s |-> s]
PyDict(f) == [kind |-> "dict", d |-> f]
PyList(l) == [kind |-> "list", l |-> l]
EmptyDict == [k \in {} |-> NONE]

\* isinstance(x, dict)
IsDict(x) == x.kind = "dict"

\* d.get(k, default)
Get(d, k, default) == IF k \in DOMAIN d THEN d[k] ELSE default

\* `if base_info:`: None is false, a BaseNode object is true
Truthy_node(x) == x.kind # "none"

BASE_PATH == "BASE_PATH"
Bases == {"driver", "capability"}
EntryNames == {"cam", "lidar"}
ParamKeys == {"a", "b"}

\* os.path.join of a directory and a name
PathJoin(dir, name) == Append(dir, name)

\* what description.yml may hold: a declaration of a parameter, with or
\* without a default; the declarations of any of the parameters
Decls == {[type |-> "int"], [type |-> "int", default |-> "1"]}
ParamSpecs == UNION {[S -> Decls] : S \in SUBSET ParamKeys}

\* the mapping a description.yml parses to: without params, with an empty
\* params key, with declarations
DescDatas ==
    {[name |-> "slam", version |-> "1.0"]}
    \cup {[name |-> "slam", version |-> "1.0", params |-> ps] :
             ps \in {PyNone} \cup {PyDict(ps) : ps \in ParamSpecs}}

\* yaml.safe_load of description.yml: it raises YAMLError, or returns None
\* for an empty file, or a mapping
YAMLError == [kind |-> "YAMLError"]
Loads == {YAMLError, PyNone} \cup {PyDict(d) : d \in DescDatas}

\* what is found at <sub_dir_path>/description.yml and at sub_dir_path
DescStates ==
    {[kind |-> "missing"], [kind |-> "dir"]}
    \cup {[kind |-> "file", load |-> y] : y \in Loads}
SubStates ==
    {[kind |-> "missing"], [kind |-> "file"]}
    \cup {[kind |-> "dir", desc |-> x] : x \in DescStates}

\* the entries of a configuration: a name, or a one-key mapping from the
\* name to its content
Overrides == UNION {[S -> {"9"}] : S \in SUBSET ParamKeys}
Contents ==
    {PyNone, PyDict(EmptyDict), PyDict([params |-> PyNone])}
    \cup {PyDict([params |-> PyDict(o)]) : o \in Overrides}
Entries ==
    {PyStr(n) : n \in EntryNames}
    \cup {PyDict([k \in {n} |-> c]) : n \in EntryNames, c \in Contents}

\* list(entry.keys())[0] of an empty mapping raises IndexError
EntryRaises(entry) == IsDict(entry) /\ DOMAIN entry.d = {}

\* lines 44-52
get_entry_name(entry) ==
    IF IsDict(entry)
    THEN LET entry_name == CHOOSE k \in DOMAIN entry.d : TRUE
         IN  <<entry_name, entry.d[entry_name]>>
    ELSE <<entry.s, PyNone>>

\* lines 7-36
BaseNode(cwd, name, version, author, startup_on_boot, startup_command, node_type, params) ==
    [kind |-> "BaseNode", cwd |-> cwd, name |-> name, version |-> version,
     author |-> author, start_on_boot |-> startup_on_boot,
     startup_command |-> startup_command, node_type |-> node_type,
     params |-> params]

\* lines 80-83: the declared parameters that have a default
Defaults(declared) ==
    [k \in {x \in DOMAIN declared : "default" \in DOMAIN declared[x]}
        |-> declared[k]["default"]]

\* mutant: params.setdefault for every override
UpdateMissing(p, o) ==
    [k \in DOMAIN p \cup DOMAIN o |-> IF k \in DOMAIN p THEN p[k] ELSE o[k]]

\* line 84: params.update(o)
Update(p, o) ==
    [k \in DOMAIN p \cup DOMAIN o |-> IF k \in DOMAIN o THEN o[k] ELSE p[k]]

\* lines 54-108; sub is what the file system holds at sub_dir_path.  Every
\* exception raised inside the try block is logged and None is returned.
get_node(sub, entry, sub_dir_path, node_type, entry_content) ==
    IF sub.kind # "dir" THEN PyNone
    ELSE IF sub.desc.kind # "file" THEN PyNone
    ELSE LET data == sub.desc.load
         IN  IF data = YAMLError THEN PyNone
             ELSE IF ~IsDict(data) THEN PyNone          \* data.get raises
             ELSE LET declared == Get(data.d, "params", PyDict(EmptyDict))
                      given == IF IsDict(entry_content)
                               THEN Get(entry_content.d, "params", PyDict(EmptyDict))
                               ELSE PyDict(EmptyDict)
                  IN  IF ~IsDict(declared) THEN PyNone  \* None.items() raises
                      ELSE IF ~IsDict(given) THEN PyNone \* update(None) raises
                      ELSE BaseNode(sub_dir_path,
                                    Get(data.d, "name", NONE),
                                    Get(data.d, "version", NONE),
                                    Get(data.d, "author", NONE),
                                    Get(data.d, "start_on_boot", FALSE),
                                    Get(data.d, "startup_command", NONE),
                                    node_type,
                                    Update(Defaults(declared.d), given.d))

\* the entries a configuration lists under a base: names, mappings with an
\* override, empty mappings; a name appears once in a list
ConfigEntries ==
    {PyStr(n) : n \in EntryNames}
    \cup {PyDict([k \in {n} |-> PyDict([params |-> PyDict([x \in {"a"} |-> "9"])])]) :
             n \in EntryNames}
    \cup {PyDict(EmptyDict)}
EntryLists ==
    {l \in UNION {[1..n -> ConfigEntries] : n \in 0..MaxEntries} :
        \A i, j \in 1..Len(l) :
            (i # j /\ ~EntryRaises(l[i]) /\ ~EntryRaises(l[j]))
            => get_entry_name(l[i])[1] # get_entry_name(l[j])[1]}

\* the configuration file parsed: the bases in the order of the file, each
\* with a list of entries or with nothing
Configs ==
    {c \in UNION {[1..n -> Bases \X ({PyNone} \cup {PyList(l) : l \in EntryLists})] :
                     n \in 0..Cardinality(Bases)} :
        \A i, j \in 1..Len(c) : i # j => c[i][1] # c[j][1]}

BaseKinds == {"missing", "file", "dir"}

\* the outline of what get_node found at sub_dir_path
Found(sub) ==
    IF sub.kind # "dir" THEN "not a directory"
    ELSE IF sub.desc.kind # "file" THEN "no description"
    ELSE IF sub.desc.load = YAMLError THEN "unparsable"
    ELSE "parsed"

\* lines 153-156 for one entry of a base: get_entry_name, then get_node
call_get_node ==
    /\ node.pc = "idle"
    /\ \E base \in Bases, entry \in Entries, sub \in SubStates :
          LET en == get_entry_name(entry)
              sub_dir_path == PathJoin(PathJoin(<<BASE_PATH>>, base), en[1])
          IN  node' = [NoNodeCall EXCEPT
                          !.pc = "done", !.op = "get_node", !.base = base,
                          !.entry = entry, !.sub = sub,
                          !.out = get_node(sub, en[1], sub_dir_path, base, en[2])]
    /\ UNCHANGED <<files, dirs, arts, procs, pc, args, loc, cmd, res>>

\* lines 125-133: the configuration file is missing, or empty (config is
\* None and config.items() raises), or holds a mapping
call_get_node_details ==
    /\ node.pc = "idle"
    /\ \/ node' = [NoNodeCall EXCEPT !.op = "get_node_details", !.pc = "done",
                                    !.config = [kind |-> "missing"],
                                    !.out = PyList(<<>>)]
       \/ node' = [NoNodeCall EXCEPT !.op = "get_node_details", !.pc = "raised"]
       \/ \E c \in Configs :
          \E kinds \in [{c[i][1] : i \in 1..Len(c)} -> BaseKinds] :
             node' = [NoNodeCall EXCEPT !.op = "get_node_details", !.pc = "base",
                                       !.config = [kind |-> "dict", items |-> c],
                                       !.kinds = kinds, !.i = 1]
    /\ UNCHANGED <<files, dirs, arts, procs, pc, args, loc, cmd, res>>

\* mutant: the records collected so far are returned
ReturnCollected(acc) == acc

\* lines 144, 147, 163: `return []`
ReturnEmpty(acc) == <<>>

\* lines 135-148, 165: the next base of the configuration
get_node_details_base ==
    /\ node.pc = "base"
    /\ LET items == node.config.items
       IN  IF node.i > Len(items)
           THEN node' = [node EXCEPT !.pc = "done", !.out = PyList(node.acc)]
           ELSE LET base == items[node.i][1]
                    entries == items[node.i][2]
                IN  IF entries.kind = "none"
                    THEN node' = [node EXCEPT !.i = @ + 1]
                    ELSE IF node.kinds[base] # "dir"
                    THEN node' = [node EXCEPT !.pc = "done",
                                              !.out = PyList(ReturnEmpty(node.acc))]
                    ELSE node' = [node EXCEPT !.pc = "entry", !.j = 1]
    /\ UNCHANGED <<files, dirs, arts, procs, pc, args, loc, cmd, res>>

\* lines 149-163: the next entry of the base
get_node_details_entry ==
    /\ node.pc = "entry"
    /\ LET base == node.config.items[node.i][1]
           entries == node.config.items[node.i][2].l
       IN  IF node.j > Len(entries)
           THEN node' = [node EXCEPT !.pc = "base", !.i = @ + 1]
           ELSE LET entry == entries[node.j]
                IN  IF EntryRaises(entry)
                    THEN node' = [node EXCEPT !.pc = "done", !.found = "raised",
                                              !.out = PyList(ReturnEmpty(node.acc))]
                    ELSE \E sub \in SubStates :
                            LET en == get_entry_name(entry)
                                sub_dir_path ==
                                    PathJoin(PathJoin(<<BASE_PATH>>, base), en[1])
                                base_info ==
                                    get_node(sub, en[1], sub_dir_path, base, en[2])
                            IN  node' = [node EXCEPT
                                            !.j = @ + 1, !.found = Found(sub),
                                            !.acc = IF Truthy_node(base_info)
                                                    THEN Append(@, base_info)
                                                    ELSE @]
    /\ UNCHANGED <<files, dirs, arts, procs, pc, args, loc, cmd, res>>

NodeNext ==
    \/ call_get_node
    \/ call_get_node_details
    \/ get_node_details_base
    \/ get_node_details_entry

NodeSpec == Init /\ [][NodeNext]_vars

-----------------------------------------------------------------------------
(* Properties *)

Done(t, op) == pc[t] = "done" /\ args[t].op = op

\* the number of lines of a plain token sequence, counted from its "\n"
NumLines(s) ==
    Cardinality({i \in 1..Len(s) : s[i] = NL})
      + (IF s # <<>> /\ s[Len(s)] # NL THEN 1 ELSE 0)

\* x is the text made of the last n tokens of y
IsTrailing(x, y, n) ==
    /\ TLen(x) = n
    /\ n <= TLen(y)
    /\ \A i \in 1..n : CharAt(x, i) = CharAt(y, TLen(y) - n + i)

\* C1: a start_mapping call whose method is outside {gmapping, cartographer,
\* slam_toolbox}, whatever its config_file, returns at once success=false
\* with a message that names the method, and its step changes neither the
\* process table nor any log file.
C1_UnknownMethodNoEffect ==
    [][\A t \in Threads :
          (/\ pc[t] = "start_launch"
           /\ args[t].mapping_method \notin {"gmapping", "cartographer", "slam_toolbox"}
           /\ pc'[t] # pc[t])
          => /\ pc'[t] = "done"
             /\ res'[t].success = FALSE
             /\ Contains(Expand(res'[t].message), <<args[t].mapping_method>>)
             /\ DOMAIN res'[t] = {"success", "message"}
             /\ procs' = procs
             /\ files' = files]_vars

C1_Witness ==
    \E t \in Threads :
        /\ Done(t, "start_mapping")
        /\ args[t].mapping_method = "hector"
        /\ args[t].config_file = "nav.yaml"
        /\ res[t].success = FALSE
        /\ \E u \in Threads : Done(u, "start_mapping") /\ res[u].success = TRUE

\* C2: start_mapping returns success=true only if its poll found the process
\* running and its process-tree check found at least one descendant; the
\* result then carries the launch descriptor of the method and the caller's
\* config_file unchanged.
C2_SuccessOnlyIfHealthy ==
    \A t \in Threads :
        (Done(t, "start_mapping") /\ res[t].success = TRUE)
        => /\ loc[t].poll = "running"
           /\ loc[t].children >= 1
           /\ loc[t].exc = NoExc
           /\ res[t].launch_file = MAPPING_LAUNCH_MAP[args[t].mapping_method]
           /\ res[t].config_file = args[t].config_file

C2_Witness ==
    \E t \in Threads :
        /\ Done(t, "start_mapping")
        /\ res[t].success = TRUE
        /\ res[t].config_file = "nav.yaml"
        /\ res[t].launch_file = <<"wheeltec_", "cartographer", "/", "cartographer", ".launch.py">>

\* C3: when the poll finds the process exited, the result is success=false
\* with the message "Launch failed:" followed by exactly the last
\* min(500, length) characters of the log as read, and the process tree is
\* never inspected.
C3_LaunchFailureExcerpt ==
    \A t \in Threads :
        (Done(t, "start_mapping") /\ loc[t].poll = "exited")
        => /\ res[t].success = FALSE
           /\ Head(res[t].message) = Run("Launch failed:", 1)
           /\ IsTrailing(Tail(res[t].message), loc[t].read,
                         IF TLen(loc[t].read) <= 500 THEN TLen(loc[t].read) ELSE 500)
           /\ loc[t].children = -1

C3_Witness ==
    \E t \in Threads :
        /\ Done(t, "start_mapping")
        /\ loc[t].poll = "exited"
        /\ TLen(loc[t].read) > 500
        /\ res[t].success = FALSE

\* C4: when the poll finds the process running and the process-tree check
\* finds no descendant, the result is success=false with the fixed "no child
\* processes found" message.
C4_NoChildrenIsFailure ==
    \A t \in Threads :
        (Done(t, "start_mapping") /\ loc[t].poll = "running" /\ loc[t].children = 0)
        => /\ res[t].success = FALSE
           /\ res[t].message = Lit("No child processes found - launch may have failed")

C4_Witness ==
    \E t \in Threads :
        /\ Done(t, "start_mapping")
        /\ loc[t].poll = "running"
        /\ loc[t].children = 0
        /\ procs[loc[t].proc].alive

\* C5: when the save command exits with a non-zero status, save_map returns
\* success=false, path "" and a message made of the heading and the last
\* min(10, number of lines) lines of the log as read; the artifact files are
\* not looked for.
C5_SaveCommandFailure ==
    \A t \in Threads :
        (Done(t, "save_map") /\ cmd[t].st = "exited" /\ cmd[t].rc # 0)
        => /\ res[t].success = FALSE
           /\ res[t].path = <<>>
           /\ loc[t].yaml = "unset" /\ loc[t].pgm = "unset"
           /\ LET msg  == Expand(res[t].message)
                  body == SubSeq(msg, 3, Len(msg))
                  log  == Expand(loc[t].read)
                  k    == Len(log) - Len(body)
              IN  /\ Len(msg) >= 2
                  /\ SubSeq(msg, 1, 2) = <<"Map saver command failed:", NL>>
                  /\ k >= 0
                  /\ body = SubSeq(log, k + 1, Len(log))
                  /\ k > 0 => log[k] = NL
                  /\ NumLines(body) = (IF NumLines(log) <= 10 THEN NumLines(log) ELSE 10)

C5_Witness ==
    \E t \in Threads :
        /\ Done(t, "save_map")
        /\ cmd[t].rc # 0
        /\ NumLines(Expand(loc[t].read)) > 10
        /\ YamlPath(MapPath(args[t].save_dir, args[t].map_name)) \in arts
        /\ PgmPath(MapPath(args[t].save_dir, args[t].map_name)) \in arts

\* C6: when the save command exits with status zero and the check finds
\* <save_dir>/<map_name>.yaml or <save_dir>/<map_name>.pgm missing, save_map
\* returns success=false and path "".
C6_MissingArtifacts ==
    \A t \in Threads :
        (/\ Done(t, "save_map")
         /\ loc[t].rc = 0
         /\ loc[t].yaml = "no" \/ loc[t].pgm = "no")
        => /\ res[t].success = FALSE
           /\ res[t].path = <<>>
           /\ res[t].message = Lit("Map save failed: expected output files not found")

C6_Witness ==
    \E t \in Threads :
        /\ Done(t, "save_map")
        /\ loc[t].rc = 0
        /\ loc[t].yaml = "yes"
        /\ loc[t].pgm = "no"
        /\ args[t].save_dir \o <<"/", args[t].map_name, ".yaml">> \in arts
        /\ args[t].save_dir \o <<"/", args[t].map_name, ".pgm">> \notin arts

\* C7: save_map returns success=true exactly when the save command exited
\* with status zero and both artifact files were found; path is then
\* <save_dir>/<map_name>.yaml, and "" in every other result.
C7_SuccessIffSaved ==
    \A t \in Threads :
        Done(t, "save_map")
        => /\ res[t].success = TRUE
                <=> (loc[t].rc = 0 /\ loc[t].yaml = "yes" /\ loc[t].pgm = "yes")
           /\ res[t].success = TRUE
                => res[t].path = args[t].save_dir \o <<"/", args[t].map_name, ".yaml">>
           /\ res[t].success = FALSE => res[t].path = <<>>

C7_Witness ==
    \E t \in Threads :
        /\ Done(t, "save_map")
        /\ res[t].success = TRUE
        /\ res[t].path = <<"/", "data", "/", "m2", ".yaml">>

\* C8: stop_mapping returns success=true whenever its three kill attempts
\* were run, whatever they matched or killed; it returns success=false only
\* when running a kill raised.
C8_StopAlwaysSucceeds ==
    \A t \in Threads :
        Done(t, "stop_mapping")
        => \/ /\ res[t].success = TRUE
              /\ loc[t].exc = NoExc
           \/ /\ res[t].success = FALSE
              /\ loc[t].exc \in KillErrors

C8_Witness ==
    /\ Done("t1", "stop_mapping") /\ res["t1"].success = TRUE
    /\ Done("t2", "stop_mapping") /\ res["t2"].success = TRUE

\* C9: no call leaves its operation by an exception; a call that has ended
\* has returned a result with success and message, and when an exception was
\* raised inside it the result is success=false with str(e) as message.
C9_NoRaisePastBoundary ==
    \A t \in Threads :
        /\ pc[t] # "raised"
        /\ pc[t] = "done"
             => /\ {"success", "message"} \subseteq DOMAIN res[t]
                /\ res[t].success \in BOOLEAN
                /\ loc[t].exc # NoExc
                     => res[t].success = FALSE /\ res[t].message = loc[t].exc.text

C9_Witness ==
    \E t \in Threads :
        /\ Done(t, "start_mapping")
        /\ loc[t].exc.cls = "NoSuchProcess"
        /\ res[t].success = FALSE

C11_DirExistsAfterAnyCall ==
    \A t \in Threads : Done(t, "save_map") => args[t].save_dir \in dirs

\* C11 as amended: a call of save_map never fails because the directory
\* already exists, and after any call in which os.makedirs itself did not
\* raise (command failure, missing artifacts, success, or an exception
\* raised later) the save directory exists.
C11_DirExistsUnlessMakedirsRaised ==
    \A t \in Threads :
        Done(t, "save_map")
        => /\ loc[t].exc.cls # "FileExistsError"
           /\ loc[t].exc \notin MkdirErrors => args[t].save_dir \in dirs

C11_Witness ==
    /\ Done("t1", "save_map")
    /\ Done("t2", "save_map")
    /\ args["t1"].save_dir = args["t2"].save_dir
    /\ res["t1"].success = TRUE
    /\ loc["t2"].exc \in SpawnErrors
    /\ args["t2"].save_dir \in dirs

\* caller t, or the save command it runs, takes the step
Steps(t) == pc'[t] # pc[t] \/ cmd'[t] # cmd[t]

\* C12: of two save_map calls with distinct map names, no step of one (its
\* open of the log, the output and the exit of its command) changes the log
\* /tmp/save_map_<map_name>.log of the other; and the open of the log by a
\* call leaves that log empty, whatever a call with the same map name had
\* written to it.
C12_SaveLogsByMapName ==
    [][\A t \in Threads :
          (args[t].op = "save_map" /\ Steps(t))
          => /\ \A u \in Threads \ {t} :
                   (args[u].op = "save_map" /\ args[u].map_name # args[t].map_name)
                   => files'[<<"/tmp/save_map_", args[u].map_name, ".log">>]
                        = files[<<"/tmp/save_map_", args[u].map_name, ".log">>]
             /\ (pc[t] = "save_begin" /\ pc'[t] = "save_run")
                   => files'[<<"/tmp/save_map_", args[t].map_name, ".log">>]
                        = [ex |-> TRUE, data |-> <<>>]]_vars

\* the earlier call's command has written, and the later call with the same
\* map name has opened the log and erased it
C12_Witness ==
    /\ args["t1"].op = "save_map"
    /\ args["t2"].op = "save_map"
    /\ args["t1"].map_name = args["t2"].map_name
    /\ cmd["t1"].bursts > 0
    /\ pc["t2"] = "save_run"
    /\ cmd["t2"].bursts = 0
    /\ files[<<"/tmp/save_map_", args["t1"].map_name, ".log">>].data = <<>>

\* C13: the log of a spawned process is /tmp/<method>_mapping.log, so two
\* invocations for the same method share it, and the log of a method is
\* changed only by a start_mapping call for that method or by a process
\* spawned for that method: invocations for different methods never share a
\* log. (That two concurrent invocations for one method corrupt each other's
\* excerpt is the reachable state C13_Witness.)
C13_StartLogsByMethod ==
    [][/\ \A pid \in 1..Len(procs) :
             procs[pid].log = <<"/tmp/", procs[pid].method, "_mapping.log">>
       /\ \A m \in {"gmapping", "cartographer", "slam_toolbox"} :
             files'[<<"/tmp/", m, "_mapping.log">>] # files[<<"/tmp/", m, "_mapping.log">>]
             => \/ \E t \in Threads :
                      /\ args[t].op = "start_mapping"
                      /\ args[t].mapping_method = m
                      /\ pc'[t] # pc[t]
                \/ \E pid \in 1..Len(procs) :
                      /\ procs[pid].method = m
                      /\ procs'[pid] # procs[pid]]_vars

\* both invocations are for one method and overlap; the excerpt returned to
\* one of them holds output of the process the other one spawned
C13_Witness ==
    \E t \in Threads, u \in Threads :
        /\ t # u
        /\ Done(t, "start_mapping")
        /\ args[u].op = "start_mapping"
        /\ args[u].mapping_method = args[t].mapping_method
        /\ pc[u] = "start_poll"
        /\ loc[t].poll = "exited"
        /\ loc[u].proc # loc[t].proc
        /\ \E i \in 1..Len(res[t].message) :
              res[t].message[i].c = OutChar(loc[u].proc, 1)

\* C14: within one start_mapping call the process is polled at most once
\* and its tree inspected at most once, what was found is not revised, and
\* the result of a call that has returned never changes, whatever the
\* process does afterwards.
C14_OneEvaluationTerminal ==
    [][\A t \in Threads :
          args[t].op = "start_mapping"
          => /\ loc'[t].polls <= 1
             /\ loc[t].poll # "unset" => loc'[t].poll = loc[t].poll
             /\ loc[t].children # -1 => loc'[t].children = loc[t].children
             /\ pc[t] = "done" => pc'[t] = "done" /\ res'[t] = res[t]]_vars

\* success was returned, and the process has died since
C14_Witness ==
    \E t \in Threads :
        /\ Done(t, "start_mapping")
        /\ res[t].success = TRUE
        /\ loc[t].polls = 1
        /\ ~procs[loc[t].proc].alive

\* C15 as stated: every stop_mapping call that has returned has signalled
\* all three patterns.
C15_AllPatternsEveryCall ==
    \A t \in Threads : Done(t, "stop_mapping") => loc[t].signalled = StopPatterns

\* C15: a stop_mapping call signals the patterns in the fixed order, one per
\* turn whatever pkill's exit status was; a call that returns without an
\* exception has signalled all three, and only an exception raised by
\* running pkill ends the loop early.
C15_AllPatternsUnlessRunRaised ==
    \A t \in Threads :
        args[t].op = "stop_mapping"
        => /\ Len(loc[t].signalled) <= Len(StopPatterns)
           /\ loc[t].signalled = SubSeq(StopPatterns, 1, Len(loc[t].signalled))
           /\ Len(loc[t].status) = Len(loc[t].signalled)
           /\ pc[t] = "done"
              => IF loc[t].exc = NoExc
                 THEN loc[t].signalled = StopPatterns /\ res[t] = Stopped
                 ELSE /\ loc[t].exc \in KillErrors
                      /\ Len(loc[t].signalled) < Len(StopPatterns)
                      /\ res[t] = StopUnexpected(loc[t].exc)

\* the first pattern matched nothing, a later one matched, all were signalled
C15_Witness ==
    \E t \in Threads :
        /\ Done(t, "stop_mapping")
        /\ res[t].success = TRUE
        /\ loc[t].signalled = StopPatterns
        /\ loc[t].status[1] = 1
        /\ \E i \in 2..Len(StopPatterns) : loc[t].status[i] = 0

\* C16: a start_mapping call always returns, whatever its process does;
\* a save_map call takes no step and has no result while its save command
\* is running, so it returns only after the command has terminated.
C16_StartReturnsSaveWaits ==
    /\ \A t \in Threads : (args[t].op = "start_mapping") ~> (pc[t] = "done")
    /\ [][\A t \in Threads :
             (args[t].op = "save_map" /\ cmd[t].st = "running")
             => pc'[t] = "save_run" /\ res'[t] = res[t]]_vars
    /\ [](\A t \in Threads :
             (Done(t, "save_map") /\ loc[t].rc # -1) => cmd[t].st = "exited")

\* the save command has written all its output and still runs: the call
\* has not returned
C16_Witness ==
    \E t \in Threads :
        /\ args[t].op = "save_map"
        /\ pc[t] = "save_run"
        /\ cmd[t].st = "running"
        /\ cmd[t].bursts = MaxBursts

\* C17: no step of a start_mapping call ends a process or its children:
\* whenever a process stops being alive or loses children, no start_mapping
\* caller has moved in that step; a process found running is still running
\* when its call returns, also when the call returns a failure; and the
\* result carries no reference to the process.
C17_StartNeverSignals ==
    [][\A t \in Threads :
          args[t].op = "start_mapping"
          => /\ (\E pid \in 1..Len(procs) :
                    \/ procs[pid].alive /\ ~procs'[pid].alive
                    \/ procs'[pid].kids < procs[pid].kids)
                => pc'[t] = pc[t] /\ loc'[t] = loc[t] /\ res'[t] = res[t]
             /\ (pc[t] # "done" /\ pc'[t] = "done" /\ loc[t].proc # 0)
                => /\ procs'[loc[t].proc].alive = procs[loc[t].proc].alive
                   /\ DOMAIN res'[t] \subseteq
                         {"success", "message", "launch_file", "config_file"}]_vars

\* a call returned "no child processes" and its process is still running
C17_Witness ==
    \E t \in Threads :
        /\ Done(t, "start_mapping")
        /\ res[t] = NoChildren
        /\ loc[t].poll = "running"
        /\ procs[loc[t].proc].alive

\* C18: the step in which the spawn of a known method fails returns
\* success=false with the text of the exception, creates no process, and
\* leaves the method's log existing and empty.
C18_FailedSpawnTruncatesLog ==
    [][\A t \in Threads :
          (/\ args[t].op = "start_mapping"
           /\ pc[t] = "start_launch"
           /\ loc'[t].exc \in SpawnErrors)
          => /\ Known(args[t].mapping_method)
             /\ pc'[t] = "done"
             /\ res'[t] = [success |-> FALSE, message |-> loc'[t].exc.text]
             /\ procs' = procs
             /\ loc'[t].proc = 0
             /\ files'[<<"/tmp/", args[t].mapping_method, "_mapping.log">>]
                   = [ex |-> TRUE, data |-> <<>>]]_vars

\* an earlier call's process had written to the log; the failed start of the
\* same method has left the log empty
C18_Witness ==
    \E t, u \in Threads :
        /\ Done(t, "start_mapping")
        /\ loc[t].exc \in SpawnErrors
        /\ u # t
        /\ args[u].op = "start_mapping"
        /\ args[u].mapping_method = args[t].mapping_method
        /\ loc[u].proc # 0
        /\ procs[loc[u].proc].writes > 0
        /\ files[StartLogPath(args[t].mapping_method)].data = <<>>

\* the parameters description.yml declares and the overrides the entry
\* supplies, in a call of get_node that built a record
C19_Declared == node.sub.desc.load.d.params.d
C19_Given == node.entry.d[CHOOSE n \in DOMAIN node.entry.d : TRUE].d.params.d
C19_HasDeclared == "params" \in DOMAIN node.sub.desc.load.d
C19_HasGiven ==
    /\ node.entry.kind = "dict"
    /\ LET c == node.entry.d[CHOOSE n \in DOMAIN node.entry.d : TRUE]
       IN  c.kind = "dict" /\ "params" \in DOMAIN c.d

\* C19: in a record built by get_node, every key has the override the entry
\* supplies for it, declared or not; without an override it has the default
\* the description declares; with neither it is absent.
C19_ParamsDefaultsOverridden ==
    (node.op = "get_node" /\ node.pc = "done" /\ node.out.kind = "BaseNode")
    => \A k \in ParamKeys :
          IF C19_HasGiven /\ k \in DOMAIN C19_Given
          THEN k \in DOMAIN node.out.params /\ node.out.params[k] = C19_Given[k]
          ELSE IF /\ C19_HasDeclared
                  /\ k \in DOMAIN C19_Declared
                  /\ "default" \in DOMAIN C19_Declared[k]
          THEN /\ k \in DOMAIN node.out.params
               /\ node.out.params[k] = C19_Declared[k].default
          ELSE k \notin DOMAIN node.out.params

\* "a" has a default and an override, "b" only a default
C19_Witness ==
    /\ node.op = "get_node"
    /\ node.pc = "done"
    /\ node.out.kind = "BaseNode"
    /\ C19_HasGiven
    /\ C19_HasDeclared
    /\ DOMAIN C19_Given = {"a"}
    /\ DOMAIN C19_Declared = {"a", "b"}
    /\ \A k \in {"a", "b"} : "default" \in DOMAIN C19_Declared[k]
    /\ node.out.params = [k \in {"a", "b"} |-> IF k = "a" THEN "9" ELSE "1"]

\* C20 as stated: a call that has returned with some configured base
\* directory missing or not a directory has returned the empty list.
C20_EmptyWheneverBaseMissing ==
    (/\ node.op = "get_node_details"
     /\ node.pc = "done"
     /\ node.config.kind = "dict"
     /\ \E i \in 1..Len(node.config.items) :
           node.kinds[node.config.items[i][1]] # "dir")
    => node.out = PyList(<<>>)

\* C20: an entry found to be no directory, to have no description.yml or an
\* unparsable one leaves the collected records as they are and the loop goes
\* on; any other entry leaves them or appends its record, so the records are
\* in configuration order; a base without an entry list is passed over, its
\* directory not looked at; the call returns the collected records after
\* the last base, and returns the empty list, whatever was collected, when
\* a base with an entry list has no directory or when an entry raises.
C20_SkipsEntriesDiscardsOnBadBase ==
    [][(node.op = "get_node_details" /\ node.pc \in {"base", "entry"})
       => LET items == node.config.items
              more == node.i <= Len(items)
              base == items[node.i][1]
              entries == items[node.i][2]
          IN  /\ (node.pc = "entry" /\ node'.pc = "entry" /\ node'.j = node.j + 1)
                 => IF node'.found \in {"not a directory", "no description", "unparsable"}
                    THEN node'.acc = node.acc
                    ELSE \/ node'.acc = node.acc
                         \/ /\ Len(node'.acc) = Len(node.acc) + 1
                            /\ SubSeq(node'.acc, 1, Len(node.acc)) = node.acc
                            /\ node'.acc[Len(node'.acc)].cwd =
                                  <<BASE_PATH, base,
                                    get_entry_name(entries.l[node.j])[1]>>
                            /\ node'.acc[Len(node'.acc)].node_type = base
              /\ (node.pc = "base" /\ more /\ entries.kind = "none")
                 => node' = [node EXCEPT !.i = @ + 1]
              /\ node'.pc = "done"
                 => IF node.pc = "base" /\ ~more
                    THEN node'.out = PyList(node.acc)
                    ELSE /\ node'.out = PyList(<<>>)
                         /\ node'.acc = node.acc
                         /\ node.pc = "base"
                            => entries.kind = "list" /\ node.kinds[base] # "dir"
                         /\ node.pc = "entry" => EntryRaises(entries.l[node.j])]_vars

\* records were collected from the first base, the directory of the second
\* is missing, and the empty list was returned
C20_Witness ==
    /\ node.op = "get_node_details"
    /\ node.pc = "done"
    /\ node.config.kind = "dict"
    /\ Len(node.config.items) = 2
    /\ node.i = 2
    /\ node.config.items[2][2].kind = "list"
    /\ node.kinds[node.config.items[2][1]] = "missing"
    /\ Len(node.acc) = 2
    /\ node.out = PyList(<<>>)

====
